---- MODULE Spec2Model ----
(***************************************************************************)
(* NotebooksContentService (notebooks-content.service.ts): the location    *)
(* of the notebook file browser, the caches of sessions and kernel specs,  *)
(* the polling timer, and the HTTP requests in flight.                     *)
(*                                                                         *)
(* Strings are sequences of one-character strings, so that join, slice and *)
(* startsWith are computed character by character.  JavaScript's null and  *)
(* undefined are the one-element sequences Null and Undefined, which no    *)
(* character string equals.                                                *)
(***************************************************************************)
EXTENDS Integers, Sequences, FiniteSets, Bags, TLC

VARIABLES
    path,            \* _path
    pathSegments,    \* _pathSegments
    type,            \* _type
    parentPath,      \* _parentPath
    directoryPath,   \* _directoryPath
    isRoot,          \* _isRoot
    directory,       \* _directory
    metadata,        \* _metadata
    notebook,        \* notebook
    notebookPath,    \* notebookPath
    sessions,        \* sessions.getValue()
    kernelSpecs,     \* kernelSpecs.getValue()
    updateInterval,  \* updateInterval$: "undefined", "open" or "closed"
    timers,          \* number of interval(15000) subscriptions still open
    inflight,        \* bag of HTTP requests subscribed and not yet answered
    pipes,           \* paths whose getSpecifiedKernel pipe a caller holds
    moves,           \* forkJoin groups of moveSessionsWithFile: their pending move requests
    last,            \* what the last step did: operation, notifications, requests
    hist             \* history: what was delivered and called, for the properties

vars == <<path, pathSegments, type, parentPath, directoryPath, isRoot, directory,
          metadata, notebook, notebookPath, sessions, kernelSpecs, updateInterval,
          timers, inflight, pipes, moves, last, hist>>

locVars == <<path, pathSegments, type, parentPath, directoryPath, isRoot,
             directory, metadata>>

-----------------------------------------------------------------------------
(* Bounds *)

\* SpecLocation: update() pipelines (a metadata or a directory request) in flight
MaxUpdates == 2
\* SpecSessions, SpecKernel: requests of one kind in flight
MaxFetches == 2
\* SpecSessions: local session edits after the last getSessions response
MaxEdits == 2
\* SpecPolling: requests of all kinds in flight
MaxInFlight == 3
\* SpecLookups: length of the cached session list
MaxSessions == 2

-----------------------------------------------------------------------------
(* Values *)

Null == <<"null">>
Undefined == <<"undefined">>
\* _pathSegments before the first updateLocation
NoSegments == <<Undefined>>

\* Content.type values the service tells apart: 'directory' and anything else
Types == {"directory", "file"}

\* a Content answer of getContents(path, false)
Content(t, p) == [type |-> t, path |-> p]
\* _metadata / _directory before the first response
NoContent == [type |-> "undefined", path |-> Undefined]
\* a response whose body is null
NullContent == [type |-> "null", path |-> Null]

\* an HTTP request in flight.  kind: "meta" and "dir" are the two getContents
\* of update(), "sessions", "kernelspecs", "notebook" (getSpecifiedKernel).
\* inv counts the invalid-location notifications the request's update() has
\* already emitted.
Request(k, p, n) == [kind |-> k, path |-> p, inv |-> n]

InFlight(kinds) ==
    LET S == {r \in BagToSet(inflight) : r.kind \in kinds}
        RECURSIVE Sum(_)
        Sum(T) == IF T = {} THEN 0
                  ELSE LET r == CHOOSE x \in T : TRUE
                       IN inflight[r] + Sum(T \ {r})
    IN Sum(S)

\* faulty variant: subscribing cancels the requests of the same kind still in flight,
\* as a switchMap over the calls would
IssueSwitch(bag, r) ==
    LET keep == {x \in BagToSet(bag) : x.kind /= r.kind}
    IN [x \in keep |-> bag[x]] (+) SetToBag({r})

\* observable.subscribe(...): one more request in flight, the others untouched
Issue(bag, r) == bag (+) SetToBag({r})
RECURSIVE IssueAll(_, _)
IssueAll(bag, rs) == IF rs = <<>> THEN bag ELSE IssueAll(Issue(bag, Head(rs)), Tail(rs))
\* the response of r arrives and its subscription completes
Answer(bag, r) == bag (-) SetToBag({r})

-----------------------------------------------------------------------------
(* Strings *)

\* decodeURIComponent on one character or escape
decodeChar(c) == IF c = "%2F" THEN "/" ELSE IF c = "%20" THEN " " ELSE c

\* faulty variant: the segments are used as the router serializes them
decodeURIComponentNone(s) == s

\* decodeURIComponent(segment.toString())
decodeURIComponent(s) == [i \in 1..Len(s) |-> decodeChar(s[i])]

\* Array.prototype.join('/')
RECURSIVE join(_)
join(segs) ==
    IF Len(segs) = 0 THEN <<>>
    ELSE IF Len(segs) = 1 THEN segs[1]
    ELSE segs[1] \o <<"/">> \o join(Tail(segs))

\* Array.prototype.slice(0, -k)
sliceEnd(segs, k) == IF Len(segs) > k THEN SubSeq(segs, 1, Len(segs) - k) ELSE <<>>

\* faulty variant: the paths are compared for equality
startsWithExact(s, prefix) == s = prefix

\* String.prototype.startsWith
RECURSIVE startsWith(_, _)
startsWith(s, prefix) ==
    IF Len(prefix) = 0 THEN TRUE
    ELSE IF Len(s) = 0 THEN FALSE
    ELSE IF Head(s) /= Head(prefix) THEN FALSE
    ELSE startsWith(Tail(s), Tail(prefix))

-----------------------------------------------------------------------------
(* What a step reports *)

\* invalidLocationSubject.next() and contentChange.next()
Invalid == "invalid"
Changed == "content"

\* a call: arg is the argument of a lookup, result what it returns, moved the
\* move requests it subscribed to, published the lists it handed to the
\* subscribers of sessions
Step(op, arg, emitted, issued) ==
    [op |-> op, arg |-> arg, emitted |-> emitted, issued |-> issued,
     done |-> <<>>, result |-> Null, first |-> FALSE, moved |-> <<>>,
     published |-> <<>>]

\* a step that answers a request; done is <<>> while the request's
\* update() goes on and <<[inv, chg]>>, the notifications it emitted in all,
\* when it ends; first tells a metadata response that answers the request of
\* the updateLocation just before it, with no other update() in flight
Answered(op, emitted, issued, done) ==
    [op |-> op, arg |-> Null, emitted |-> emitted, issued |-> issued,
     done |-> done, result |-> Null, first |-> FALSE, moved |-> <<>>,
     published |-> <<>>]

Finished(inv, chg) == <<[inv |-> inv, chg |-> chg]>>

-----------------------------------------------------------------------------
(* Location: updateLocation, update, updateMetadata, updateDirectory *)

\* the getContents(this._path, false) of update()
updateRequest(p) == Request("meta", p, 0)

\* the getContents(this._directoryPath, true) of update()'s mergeMap
directoryRequest(p, inv) == Request("dir", p, inv)

\* faulty variant: the parent of a file is taken one level too low (slice(0, -1) and
\* length > 1 where the code has slice(0, -2) and length > 2)
updateMetadataShallow(res) ==
    LET cur == [type |-> type, metadata |-> metadata, isRoot |-> isRoot,
                parentPath |-> parentPath, directoryPath |-> directoryPath,
                emitted |-> <<>>, threw |-> FALSE]
        set == [cur EXCEPT !.type = res.type, !.metadata = res, !.isRoot = FALSE]
        n   == Len(pathSegments)
    IN  IF res = NullContent THEN [cur EXCEPT !.emitted = <<Invalid>>]
        ELSE IF pathSegments = NoSegments THEN [set EXCEPT !.threw = TRUE]
        ELSE IF res.type = "directory"
             THEN IF n = 1 THEN [set EXCEPT !.isRoot = TRUE]
                  ELSE [set EXCEPT !.parentPath = join(sliceEnd(pathSegments, 1))]
             ELSE IF n > 1
                  THEN [set EXCEPT !.directoryPath = join(sliceEnd(pathSegments, 1)),
                                   !.parentPath = join(sliceEnd(pathSegments, 1))]
                  ELSE [set EXCEPT !.directoryPath = join(sliceEnd(pathSegments, 1))]

\* faulty variant: the null check comes after the fields are reset
updateMetadataLateCheck(res) ==
    LET cur == [type |-> type, metadata |-> metadata, isRoot |-> isRoot,
                parentPath |-> parentPath, directoryPath |-> directoryPath,
                emitted |-> <<>>, threw |-> FALSE]
        n   == Len(pathSegments)
    IN  IF res = NullContent
        THEN [cur EXCEPT !.isRoot = FALSE, !.metadata = res, !.emitted = <<Invalid>>]
        ELSE LET set == [cur EXCEPT !.type = res.type, !.metadata = res, !.isRoot = FALSE]
             IN IF pathSegments = NoSegments THEN [set EXCEPT !.threw = TRUE]
                ELSE IF res.type = "directory"
                     THEN IF n = 1 THEN [set EXCEPT !.isRoot = TRUE]
                          ELSE [set EXCEPT !.parentPath = join(sliceEnd(pathSegments, 1))]
                     ELSE IF n > 2
                          THEN [set EXCEPT !.directoryPath = join(sliceEnd(pathSegments, 1)),
                                           !.parentPath = join(sliceEnd(pathSegments, 2))]
                          ELSE [set EXCEPT !.directoryPath = join(sliceEnd(pathSegments, 1))]

\* updateMetadata(res): the fields after the call, the notifications it emits
\* and whether it throws (a TypeError on _pathSegments of undefined)
updateMetadata(res) ==
    LET cur == [type |-> type, metadata |-> metadata, isRoot |-> isRoot,
                parentPath |-> parentPath, directoryPath |-> directoryPath,
                emitted |-> <<>>, threw |-> FALSE]
        set == [cur EXCEPT !.type = res.type, !.metadata = res, !.isRoot = FALSE]
        n   == Len(pathSegments)
    IN  IF res = NullContent THEN [cur EXCEPT !.emitted = <<Invalid>>]
        ELSE IF pathSegments = NoSegments THEN [set EXCEPT !.threw = TRUE]
        ELSE IF res.type = "directory"
             THEN IF n = 1 THEN [set EXCEPT !.isRoot = TRUE]
                  ELSE [set EXCEPT !.parentPath = join(sliceEnd(pathSegments, 1))]
             ELSE IF n > 2
                  THEN [set EXCEPT !.directoryPath = join(sliceEnd(pathSegments, 1)),
                                   !.parentPath = join(sliceEnd(pathSegments, 2))]
                  ELSE [set EXCEPT !.directoryPath = join(sliceEnd(pathSegments, 1))]

\* updateDirectory(res)
updateDirectory(res) == res

\* isCurrentPath(path): path === this._path
isCurrentPath(p) == p = path

UpdateLocation(url) ==
    /\ pathSegments' = [i \in 1..Len(url) |-> decodeURIComponent(url[i])]
    /\ path' = join(pathSegments')
    /\ directoryPath' = path'
    /\ parentPath' = Null
    /\ inflight' = Issue(inflight, updateRequest(path'))
    /\ last' = Step("updateLocation", Null, <<>>, <<updateRequest(path')>>)
    /\ UNCHANGED <<type, isRoot, directory, metadata, notebook, notebookPath,
                   sessions, kernelSpecs, updateInterval, timers, pipes, moves, hist>>

Update ==
    /\ inflight' = Issue(inflight, updateRequest(path))
    /\ last' = Step("update", Null, <<>>, <<updateRequest(path)>>)
    /\ UNCHANGED <<locVars, notebook, notebookPath, sessions, kernelSpecs,
                   updateInterval, timers, pipes, moves, hist>>

\* the error callback of update(): this.invalidLocationSubject.next()
updateError == <<Invalid>>

\* faulty variant: the directory request is built before updateMetadata(res) runs
mergeMapRequestEager(m) == directoryRequest(directoryPath, Len(m.emitted))

\* the inner observable of update()'s mergeMap, after updateMetadata(res) gave m:
\* getContents(this._directoryPath, true)
mergeMapRequest(m) == directoryRequest(m.directoryPath, Len(m.emitted))

\* what the server may answer to getContents(p, false)
MetadataResponses(p) == {Content(t, p) : t \in Types} \cup {NullContent}

\* the metadata request answers: the mergeMap of update() runs
\* updateMetadata(res) and subscribes to getContents(_directoryPath, true);
\* an exception in updateMetadata goes to the error callback
MetadataNext(req, res) ==
    /\ req \in BagToSet(inflight) /\ req.kind = "meta"
    /\ res \in MetadataResponses(req.path)
    /\ LET m == updateMetadata(res)
           dirReq == mergeMapRequest(m)
           first == last.op = "updateLocation" /\ InFlight({"meta", "dir"}) = 1
       IN /\ type' = m.type
          /\ metadata' = m.metadata
          /\ isRoot' = m.isRoot
          /\ parentPath' = m.parentPath
          /\ directoryPath' = m.directoryPath
          /\ IF m.threw
             THEN /\ inflight' = Answer(inflight, req)
                  /\ last' = Answered("metadataNext", updateError, <<>>,
                                      Finished(Len(updateError), 0))
             ELSE /\ inflight' = Issue(Answer(inflight, req), dirReq)
                  /\ last' = [Answered("metadataNext", m.emitted, <<dirReq>>, <<>>)
                                 EXCEPT !.first = first]
    /\ UNCHANGED <<path, pathSegments, directory, notebook, notebookPath, sessions,
                   kernelSpecs, updateInterval, timers, pipes, moves, hist>>

\* the metadata request fails
MetadataError(req) ==
    /\ req \in BagToSet(inflight) /\ req.kind = "meta"
    /\ inflight' = Answer(inflight, req)
    /\ last' = Answered("metadataError", updateError, <<>>,
                        Finished(Len(updateError), 0))
    /\ UNCHANGED <<locVars, notebook, notebookPath, sessions, kernelSpecs,
                   updateInterval, timers, pipes, moves, hist>>

\* the directory request answers: updateDirectory(res); contentChange.next()
DirectoryNext(req) ==
    /\ req \in BagToSet(inflight) /\ req.kind = "dir"
    /\ LET res == Content("directory", req.path)
       IN /\ directory' = updateDirectory(res)
          /\ last' = Answered("directoryNext", <<Changed>>, <<>>,
                              Finished(req.inv, 1))
    /\ inflight' = Answer(inflight, req)
    /\ UNCHANGED <<path, pathSegments, type, parentPath, directoryPath, isRoot,
                   metadata, notebook, notebookPath, sessions, kernelSpecs,
                   updateInterval, timers, pipes, moves, hist>>

\* the directory request fails
DirectoryError(req) ==
    /\ req \in BagToSet(inflight) /\ req.kind = "dir"
    /\ inflight' = Answer(inflight, req)
    /\ last' = Answered("directoryError", updateError, <<>>,
                        Finished(req.inv + Len(updateError), 0))
    /\ UNCHANGED <<locVars, notebook, notebookPath, sessions, kernelSpecs,
                   updateInterval, timers, pipes, moves, hist>>

-----------------------------------------------------------------------------
(* Sessions and kernel specs: the mirrored lists *)

sessionsRequest == Request("sessions", Null, 0)
kernelspecsRequest == Request("kernelspecs", Null, 0)

\* a SessionResponse: its id and the path of its notebook
Session(id, p) == [id |-> id, path |-> p]
NoSession == Session("undefined", Undefined)

\* faulty variant: the response is appended to the cached list
sessionsNextMerge(res) == sessions \o res

\* res => this.sessions.next(res)
sessionsNext(res) == res

\* res => this.kernelSpecs.next(res)
kernelSpecsNext(res) == res

\* faulty variant: only the first session with a matching id is removed
RECURSIVE removeSessionsFirst(_, _)
removeSessionsFirst(list, sessionIds) ==
    IF list = <<>> THEN <<>>
    ELSE IF Head(list).id \in sessionIds THEN Tail(list)
    ELSE <<Head(list)>> \o removeSessionsFirst(Tail(list), sessionIds)

\* this.sessions.next(list): the subscribers of the BehaviorSubject receive
\* the list once
next(list) == <<list>>

\* [...this.sessions.getValue(), session]
addSession(list, session) == Append(list, session)

\* this.sessions.getValue().filter(s => !sessionIds.includes(s.id))
RECURSIVE removeSessions(_, _)
removeSessions(list, sessionIds) ==
    IF list = <<>> THEN <<>>
    ELSE IF Head(list).id \in sessionIds THEN removeSessions(Tail(list), sessionIds)
    ELSE <<Head(list)>> \o removeSessions(Tail(list), sessionIds)

\* list.filter(session => session.path.startsWith(path))
RECURSIVE filterByPath(_, _)
filterByPath(list, p) ==
    IF list = <<>> THEN <<>>
    ELSE IF startsWith(Head(list).path, p)
         THEN <<Head(list)>> \o filterByPath(Tail(list), p)
         ELSE filterByPath(Tail(list), p)

\* list.find(s => s.path.startsWith(path)), NoSession for undefined
RECURSIVE findByPath(_, _)
findByPath(list, p) ==
    IF list = <<>> THEN NoSession
    ELSE IF startsWith(Head(list).path, p) THEN Head(list)
    ELSE findByPath(Tail(list), p)

getSessionsForNotebook(p) == filterByPath(sessions, p)

hasRunningKernel(p) == findByPath(sessions, p) /= NoSession

UpdateAvailableKernels ==
    /\ inflight' = Issue(inflight, kernelspecsRequest)
    /\ last' = Step("updateAvailableKernels", Null, <<>>, <<kernelspecsRequest>>)
    /\ UNCHANGED <<locVars, notebook, notebookPath, sessions, kernelSpecs,
                   updateInterval, timers, pipes, moves, hist>>

UpdateSessions ==
    /\ inflight' = Issue(inflight, sessionsRequest)
    /\ last' = Step("updateSessions", Null, <<>>, <<sessionsRequest>>)
    /\ UNCHANGED <<locVars, notebook, notebookPath, sessions, kernelSpecs,
                   updateInterval, timers, pipes, moves, hist>>

\* a getSessions request answers with the list res
SessionsNext(res) ==
    /\ sessionsRequest \in BagToSet(inflight)
    /\ sessions' = sessionsNext(res)
    /\ inflight' = Answer(inflight, sessionsRequest)
    /\ last' = [Answered("sessionsNext", <<>>, <<>>, <<>>) EXCEPT
                   !.published = next(sessions')]
    /\ hist' = [hist EXCEPT !.base = res, !.edits = <<>>]
    /\ UNCHANGED <<locVars, notebook, notebookPath, kernelSpecs, updateInterval,
                   timers, pipes, moves>>

\* a getSessions request fails: subscribe() has no error callback
SessionsError ==
    /\ sessionsRequest \in BagToSet(inflight)
    /\ inflight' = Answer(inflight, sessionsRequest)
    /\ last' = Answered("sessionsError", <<>>, <<>>, <<>>)
    /\ UNCHANGED <<locVars, notebook, notebookPath, sessions, kernelSpecs,
                   updateInterval, timers, pipes, moves, hist>>

\* a getKernelspecs request answers with res
KernelspecsNext(res) ==
    /\ kernelspecsRequest \in BagToSet(inflight)
    /\ kernelSpecs' = kernelSpecsNext(res)
    /\ inflight' = Answer(inflight, kernelspecsRequest)
    /\ last' = Answered("kernelspecsNext", <<>>, <<>>,
                        <<>>)
    /\ hist' = [hist EXCEPT !.ks = res]
    /\ UNCHANGED <<locVars, notebook, notebookPath, sessions, updateInterval,
                   timers, pipes, moves>>

\* a getKernelspecs request fails: subscribe() has no error callback
KernelspecsError ==
    /\ kernelspecsRequest \in BagToSet(inflight)
    /\ inflight' = Answer(inflight, kernelspecsRequest)
    /\ last' = Answered("kernelspecsError", <<>>, <<>>,
                        <<>>)
    /\ UNCHANGED <<locVars, notebook, notebookPath, sessions, kernelSpecs,
                   updateInterval, timers, pipes, moves, hist>>

Edit(op, session, ids) == [op |-> op, session |-> session, ids |-> ids]

AddSession(session) ==
    /\ sessions' = addSession(sessions, session)
    /\ last' = [Step("addSession", session, <<>>, <<>>) EXCEPT
                   !.published = next(sessions')]
    /\ hist' = [hist EXCEPT !.edits = Append(@, Edit("add", session, {}))]
    /\ UNCHANGED <<locVars, notebook, notebookPath, kernelSpecs, updateInterval,
                   timers, inflight, pipes, moves>>

RemoveSessions(sessionIds) ==
    /\ sessions' = removeSessions(sessions, sessionIds)
    /\ last' = [Step("removeSessions", sessionIds, <<>>, <<>>) EXCEPT
                   !.published = next(sessions')]
    /\ hist' = [hist EXCEPT !.edits = Append(@, Edit("remove", NoSession, sessionIds))]
    /\ UNCHANGED <<locVars, notebook, notebookPath, kernelSpecs, updateInterval,
                   timers, inflight, pipes, moves>>

HasRunningKernel(p) ==
    /\ last' = [Step("hasRunningKernel", p, <<>>, <<>>) EXCEPT
                   !.result = hasRunningKernel(p)]
    /\ UNCHANGED <<locVars, notebook, notebookPath, sessions, kernelSpecs,
                   updateInterval, timers, inflight, pipes, moves, hist>>

GetSessionsForNotebook(p) ==
    /\ last' = [Step("getSessionsForNotebook", p, <<>>, <<>>) EXCEPT
                   !.result = getSessionsForNotebook(p)]
    /\ UNCHANGED <<locVars, notebook, notebookPath, sessions, kernelSpecs,
                   updateInterval, timers, inflight, pipes, moves, hist>>

-----------------------------------------------------------------------------
(* moveSessionsWithFile and its forkJoin *)

\* this._notebooks.getUniqueIdFromSession(s): a string that the session
\* determines; its contents are those of the NotebooksService
getUniqueIdFromSession(s) == <<"#", s.id>>

\* this._notebooks.moveSession(s.id, toName + id, toPath + id)
moveSession(sessionId, name, p) == [id |-> sessionId, name |-> name, path |-> p]

\* this.sessions.getValue().filter(s => s.path.startsWith(fromPath))
sessionsToMove(fromPath) == filterByPath(sessions, fromPath)

\* sessionsToMove.map(s => ...): the sources of the forkJoin
moveRequests(fromPath, toName, toPath) ==
    LET list == sessionsToMove(fromPath)
    IN [i \in 1..Len(list) |->
           LET id == getUniqueIdFromSession(list[i])
           IN moveSession(list[i].id, toName \o id, toPath \o id)]

\* faulty variant: the refresh is the complete callback of subscribe()
teardownOnComplete(outcome) ==
    IF outcome = "complete" THEN <<sessionsRequest>> ELSE <<>>

\* .subscribe().add(() => this.updateSessions()): the teardown runs when the
\* subscription ends, whether the forkJoin completed or failed
teardown(outcome) == <<sessionsRequest>>

\* seq without its i-th element
RemoveAt(seq, i) == SubSeq(seq, 1, i - 1) \o SubSeq(seq, i + 1, Len(seq))

\* moveSessionsWithFile(fromPath, toName, toPath): forkJoin subscribes to every
\* move request; a forkJoin of no source completes on subscription, so the
\* teardown is added to a closed subscription and runs in the call
MoveSessionsWithFile(fromPath, toName, toPath) ==
    LET group == moveRequests(fromPath, toName, toPath)
        refresh == IF group = <<>> THEN teardown("complete") ELSE <<>>
    IN /\ moves' = IF group = <<>> THEN moves ELSE Append(moves, group)
       /\ inflight' = IssueAll(inflight, refresh)
       /\ last' = [Step("moveSessionsWithFile", <<fromPath, toName, toPath>>,
                        <<>>, refresh) EXCEPT !.moved = group]
       /\ UNCHANGED <<locVars, notebook, notebookPath, sessions, kernelSpecs,
                      updateInterval, timers, pipes, hist>>

\* the j-th pending move request of group i answers; the forkJoin completes
\* when it was the last one
MoveNext(i, j) ==
    /\ i \in 1..Len(moves) /\ j \in 1..Len(moves[i])
    /\ LET rest == RemoveAt(moves[i], j)
           refresh == IF rest = <<>> THEN teardown("complete") ELSE <<>>
       IN /\ moves' = IF rest = <<>> THEN RemoveAt(moves, i)
                      ELSE [moves EXCEPT ![i] = rest]
          /\ inflight' = IssueAll(inflight, refresh)
          /\ last' = Answered("moveNext", <<>>, refresh, <<>>)
    /\ UNCHANGED <<locVars, notebook, notebookPath, sessions, kernelSpecs,
                   updateInterval, timers, pipes, hist>>

\* the j-th pending move request of group i fails: the forkJoin fails and
\* unsubscribes from the move requests still pending
MoveError(i, j) ==
    /\ i \in 1..Len(moves) /\ j \in 1..Len(moves[i])
    /\ LET refresh == teardown("error")
       IN /\ moves' = RemoveAt(moves, i)
          /\ inflight' = IssueAll(inflight, refresh)
          /\ last' = Answered("moveError", <<>>, refresh, <<>>)
    /\ UNCHANGED <<locVars, notebook, notebookPath, sessions, kernelSpecs,
                   updateInterval, timers, pipes, hist>>

-----------------------------------------------------------------------------
(* Polling: setAutoUpdate and the interval's callback *)

\* faulty variant: the previous interval subscription is left open
unsubscribeNothing == timers

\* this.updateInterval$?.unsubscribe(): the open subscriptions left
unsubscribe == IF updateInterval = "open" THEN timers - 1 ELSE timers

SetAutoUpdate(active) ==
    /\ timers' = IF active THEN unsubscribe + 1 ELSE unsubscribe
    /\ updateInterval' = IF active THEN "open"
                         ELSE IF updateInterval = "undefined" THEN "undefined"
                         ELSE "closed"
    /\ last' = Step("setAutoUpdate", Null, <<>>, <<>>)
    /\ hist' = [hist EXCEPT !.auto = IF active THEN "true" ELSE "false"]
    /\ UNCHANGED <<locVars, notebook, notebookPath, sessions, kernelSpecs,
                   inflight, pipes, moves>>

\* faulty variant: the callback does not refresh the sessions
tickRequestsNoSessions == <<kernelspecsRequest, updateRequest(path)>>

\* what the interval's callback subscribes to, in order
tickRequests == <<kernelspecsRequest, sessionsRequest, updateRequest(path)>>

\* one tick of an open interval(15000) subscription
Tick ==
    /\ timers > 0
    /\ inflight' = IssueAll(inflight, tickRequests)
    /\ last' = Step("tick", Null, <<>>, tickRequests)
    /\ UNCHANGED <<locVars, notebook, notebookPath, sessions, kernelSpecs,
                   updateInterval, timers, pipes, moves, hist>>

-----------------------------------------------------------------------------
(* getSpecifiedKernel and the one-entry notebook cache *)

\* the TypeError of getKernelspec, which reads kernelspecs of null, and the
\* one of the pipe, which reads content or metadata of null
TypeError == "TypeError"
NotebookTypeError == "TypeError: notebook"

\* a Notebook, by the metadata?.kernelspec?.name it carries ("undefined": none)
Notebook(k) == [kernelspec |-> k]
\* notebook = null, and a response whose content is null
NullNotebook == Notebook("null")
\* a response whose body is null
NullBody == Notebook("nobody")

notebookRequest(p) == Request("notebook", p, 0)

\* getKernelspec(kernelName): kernelSpecs.getValue().kernelspecs[kernelName];
\* kernelSpecs is the list of the names that have an entry
getKernelspec(kernelName) ==
    IF kernelSpecs = Null THEN TypeError
    ELSE IF \E i \in 1..Len(kernelSpecs) : kernelSpecs[i] = kernelName THEN kernelName
    ELSE "undefined"

\* path === this.notebookPath && this.notebook
cacheHit(p) == p = notebookPath /\ notebook /= NullNotebook

\* faulty variant: the cached path is set by the first response only
tapNotebookKeepPath(p, res) ==
    [notebook |-> res, notebookPath |-> IF notebookPath = Null THEN p ELSE notebookPath]

\* the tap of getSpecifiedKernel: the notebook and the path cached after res
tapNotebook(p, res) == [notebook |-> res, notebookPath |-> p]

\* getSpecifiedKernel(path): of(cached kernel spec), or the getContents pipe,
\* which requests nothing until it is subscribed
GetSpecifiedKernel(p) ==
    /\ IF cacheHit(p)
       THEN /\ last' = [Step("getSpecifiedKernel", p, <<>>, <<>>) EXCEPT
                           !.result = getKernelspec(notebook.kernelspec)]
            /\ pipes' = pipes
       ELSE /\ last' = [Step("getSpecifiedKernel", p, <<>>, <<>>) EXCEPT
                           !.result = "pipe"]
            /\ pipes' = pipes \cup {p}
    /\ UNCHANGED <<locVars, notebook, notebookPath, sessions, kernelSpecs,
                   updateInterval, timers, inflight, moves, hist>>

\* a caller subscribes to a pipe getSpecifiedKernel(p) returned
SubscribeSpecifiedKernel(p) ==
    /\ p \in pipes
    /\ inflight' = Issue(inflight, notebookRequest(p))
    /\ last' = Step("subscribeSpecifiedKernel", p, <<>>, <<notebookRequest(p)>>)
    /\ UNCHANGED <<locVars, notebook, notebookPath, sessions, kernelSpecs,
                   updateInterval, timers, pipes, moves, hist>>

\* the getContents(path, true) of a pipe answers: tap, then switchMap
NotebookNext(req, res) ==
    /\ req \in BagToSet(inflight) /\ req.kind = "notebook"
    /\ inflight' = Answer(inflight, req)
    /\ IF res = NullBody
       THEN /\ UNCHANGED <<notebook, notebookPath, hist>>
            /\ last' = [Answered("notebookNext", <<>>, <<>>, <<>>)
                           EXCEPT !.result = NotebookTypeError]
       ELSE LET c == tapNotebook(req.path, res)
            IN /\ notebook' = c.notebook
               /\ notebookPath' = c.notebookPath
               /\ hist' = [hist EXCEPT !.fetched =
                              {f \in @ : f.path /= req.path}
                                 \cup {[path |-> req.path, notebook |-> res]}]
               /\ last' = [Answered("notebookNext", <<>>, <<>>, <<>>)
                              EXCEPT !.result = IF c.notebook = NullNotebook
                                                THEN NotebookTypeError
                                                ELSE getKernelspec(c.notebook.kernelspec)]
    /\ UNCHANGED <<locVars, sessions, kernelSpecs, updateInterval, timers, pipes, moves>>

\* the getContents(path, true) of a pipe fails
NotebookError(req) ==
    /\ req \in BagToSet(inflight) /\ req.kind = "notebook"
    /\ inflight' = Answer(inflight, req)
    /\ last' = [Answered("notebookError", <<>>, <<>>, <<>>)
                   EXCEPT !.result = "error"]
    /\ UNCHANGED <<locVars, notebook, notebookPath, sessions, kernelSpecs,
                   updateInterval, timers, pipes, moves, hist>>

-----------------------------------------------------------------------------
(* Construction *)

\* the constructor: updateAvailableKernels(); updateSessions()
constructorRequests == <<kernelspecsRequest, sessionsRequest>>

Init ==
    /\ path = Undefined
    /\ pathSegments = NoSegments
    /\ type = "directory"
    /\ parentPath = Undefined
    /\ directoryPath = Undefined
    /\ isRoot = TRUE
    /\ directory = NoContent
    /\ metadata = NoContent
    /\ notebook = NullNotebook
    /\ notebookPath = Null
    /\ sessions = <<>>
    /\ kernelSpecs = Null
    /\ updateInterval = "undefined"
    /\ timers = 0
    /\ inflight = IssueAll(EmptyBag, constructorRequests)
    /\ pipes = {}
    /\ moves = <<>>
    /\ last = Step("constructor", Null, <<>>, constructorRequests)
    /\ hist = [auto |-> "none", base |-> <<>>, edits |-> <<>>, ks |-> Null,
               fetched |-> {}]

-----------------------------------------------------------------------------
(* Inputs *)

\* URL segments as the router gives them (encoded)
SegA == <<"a">>
SegB == <<"b">>
SegAB == <<"a", "%2F", "b">>

\* URLs of zero to three segments
Urls == {<<>>, <<SegA>>, <<SegA, SegAB>>, <<SegA, SegAB, SegB>>}

PathA == <<"a">>
PathASlash == <<"a", "/">>
PathAB == <<"a", "/", "b">>
PathAb == <<"a", "b">>
PathB == <<"b">>

S1 == Session("1", PathAB)
S2 == Session("2", PathAb)
S3 == Session("3", PathB)

\* the session lists the server answers with
SessionLists == {<<>>, <<S1>>, <<S2, S1>>, <<S1, S3>>}
SessionPool == {S1, S2}
SessionIds == {"1", "2"}
QueryPaths == {<<>>, PathA, PathASlash, PathAB, PathB}

\* the arguments of moveSessionsWithFile
MoveFroms == {PathA, PathAB, PathB}
MoveName == <<"n">>
MovePath == <<"c", "/", "n">>

\* the kernel-spec maps the server answers with, by their keys
KernelspecLists == {<<"python3">>, <<"python3", "ir">>}
NotebookPaths == {PathAB, PathAb}
NotebookResponses == {Notebook("python3"), Notebook("ir"), Notebook("undefined"),
                      NullNotebook, NullBody}

-----------------------------------------------------------------------------
(* Specifications *)

\* the bounds on the requests in flight and on the edits recorded
CanUpdate == InFlight({"meta", "dir"}) < MaxUpdates
CanFetch(kind) == InFlight({kind}) < MaxFetches
CanEdit == Len(hist.edits) < MaxEdits
CanIssue(n) == BagCardinality(inflight) + n <= MaxInFlight

LocationNext ==
    \/ CanUpdate /\ \E url \in Urls : UpdateLocation(url)
    \/ CanUpdate /\ Update
    \/ \E req \in BagToSet(inflight) :
          \/ \E res \in MetadataResponses(req.path) : MetadataNext(req, res)
          \/ MetadataError(req)
          \/ DirectoryNext(req)
          \/ DirectoryError(req)

\* the location and its update() pipelines
SpecLocation == Init /\ [][LocationNext]_vars

SessionsNextStep ==
    \/ CanFetch("sessions") /\ UpdateSessions
    \/ CanFetch("kernelspecs") /\ UpdateAvailableKernels
    \/ \E res \in SessionLists : SessionsNext(res)
    \/ SessionsError
    \/ \E res \in KernelspecLists : KernelspecsNext(res)
    \/ KernelspecsError
    \/ CanEdit /\ \E s \in SessionPool : AddSession(s)
    \/ CanEdit /\ \E ids \in SUBSET SessionIds : RemoveSessions(ids)

\* the mirrored session and kernel-spec lists
SpecSessions == Init /\ [][SessionsNextStep]_vars

RECURSIVE ListsUpTo(_, _)
ListsUpTo(S, n) ==
    IF n = 0 THEN {<<>>}
    ELSE LET shorter == ListsUpTo(S, n - 1)
         IN shorter \cup {Append(q, x) : q \in shorter, x \in S}

\* the service once a getSessions response has delivered any list of up to
\* MaxSessions sessions
InitLookups ==
    /\ path = Undefined
    /\ pathSegments = NoSegments
    /\ type = "directory"
    /\ parentPath = Undefined
    /\ directoryPath = Undefined
    /\ isRoot = TRUE
    /\ directory = NoContent
    /\ metadata = NoContent
    /\ notebook = NullNotebook
    /\ notebookPath = Null
    /\ sessions \in {sessionsNext(res) : res \in ListsUpTo({S1, S2, S3}, MaxSessions)}
    /\ kernelSpecs = Null
    /\ updateInterval = "undefined"
    /\ timers = 0
    /\ inflight = Answer(IssueAll(EmptyBag, constructorRequests), sessionsRequest)
    /\ pipes = {}
    /\ moves = <<>>
    /\ last = [Answered("sessionsNext", <<>>, <<>>, <<>>) EXCEPT
                  !.published = next(sessions)]
    /\ hist = [auto |-> "none", base |-> sessions, edits |-> <<>>, ks |-> Null,
               fetched |-> {}]

LookupsNext ==
    \/ \E p \in QueryPaths : HasRunningKernel(p)
    \/ \E p \in QueryPaths : GetSessionsForNotebook(p)

\* the lookups over every cached session list
SpecLookups == InitLookups /\ [][LookupsNext]_vars

KernelNext ==
    \/ CanFetch("kernelspecs") /\ UpdateAvailableKernels
    \/ \E res \in KernelspecLists : KernelspecsNext(res)
    \/ KernelspecsError
    \/ \E p \in NotebookPaths : GetSpecifiedKernel(p)
    \/ CanFetch("notebook") /\ \E p \in NotebookPaths : SubscribeSpecifiedKernel(p)
    \/ \E req \in BagToSet(inflight) :
          \/ \E res \in NotebookResponses : NotebookNext(req, res)
          \/ NotebookError(req)

\* getSpecifiedKernel, its notebook cache and the kernel specs it reads
SpecKernel == Init /\ [][KernelNext]_vars

\* the inputs of the specification that polls
FewUrls == {<<SegA>>, <<SegA, SegB>>}
FewSessionLists == {<<>>, <<S1>>}
FewKernelspecLists == {<<"python3">>}

PollingNext ==
    \/ \E active \in BOOLEAN : SetAutoUpdate(active)
    \/ CanIssue(3) /\ Tick
    \/ CanIssue(1) /\ \E url \in FewUrls : UpdateLocation(url)
    \/ CanIssue(1) /\ Update
    \/ \E req \in BagToSet(inflight) :
          \/ MetadataNext(req, Content("directory", req.path))
          \/ MetadataError(req)
          \/ DirectoryNext(req)
          \/ DirectoryError(req)
    \/ \E res \in FewSessionLists : SessionsNext(res)
    \/ SessionsError
    \/ \E res \in FewKernelspecLists : KernelspecsNext(res)
    \/ KernelspecsError

\* the polling timer, the requests its ticks issue and their responses
SpecPolling == Init /\ [][PollingNext]_vars

\* a remote tree that does not change: the deepest location of Urls is a
\* file, the locations above it are directories
PathDeepest == <<"a", "/", "a", "/", "b", "/", "b">>
RemoteType(p) == IF p = PathDeepest THEN "file" ELSE "directory"

RaceNext ==
    \/ CanUpdate /\ \E url \in Urls : UpdateLocation(url)
    \/ \E req \in BagToSet(inflight) :
          \/ MetadataNext(req, Content(RemoteType(req.path), req.path))
          \/ DirectoryNext(req)

\* locations that follow one another while every request is answered, in any
\* order, and none fails
SpecRace == Init /\ [][RaceNext]_vars

StaleNext ==
    \/ CanEdit /\ \E s \in SessionPool : AddSession(s)
    \/ CanEdit /\ \E ids \in SUBSET SessionIds : RemoveSessions(ids)
    \/ \E res \in SessionLists : SessionsNext(res)

\* local edits while the getSessions request of the constructor is in flight:
\* no other getSessions request is issued, so the response that arrives
\* answers a request issued before every edit
SpecStaleSessions == Init /\ [][StaleNext]_vars

\* the bound on the forkJoin groups pending and the getSessions requests in flight
CanMove == Len(moves) + InFlight({"sessions"}) <= MaxFetches

MovesNext ==
    \/ CanMove /\ \E from \in MoveFroms : MoveSessionsWithFile(from, MoveName, MovePath)
    \/ \E i \in 1..Len(moves) : \E j \in 1..Len(moves[i]) : MoveNext(i, j)
    \/ \E i \in 1..Len(moves) : \E j \in 1..Len(moves[i]) : MoveError(i, j)
    \/ \E res \in SessionLists : SessionsNext(res)

\* moveSessionsWithFile over the session lists the server delivers
SpecMoves == Init /\ [][MovesNext]_vars

Next == LocationNext \/ SessionsNextStep \/ LookupsNext \/ KernelNext \/ PollingNext
            \/ RaceNext \/ StaleNext \/ MovesNext

\* the whole service
Spec == Init /\ [][Next]_vars

-----------------------------------------------------------------------------
(* Properties: helpers *)

\* the number of copies of request r in bag
Copies(bag, r) == IF r \in BagToSet(bag) THEN bag[r] ELSE 0

\* whether notification n is among those a step emitted
Emits(step, n) == \E i \in 1..Len(step.emitted) : step.emitted[i] = n

\* the characters of the first k path segments
RECURSIVE CharsOf(_, _)
CharsOf(segs, k) == IF k <= 0 THEN 0 ELSE Len(segs[k]) + CharsOf(segs, k - 1)

\* the first k segments of the location joined by '/': the prefix of the path
\* that holds them and the k - 1 separators between them
FirstJoined(k) ==
    IF k <= 0 THEN <<>> ELSE SubSeq(path, 1, CharsOf(pathSegments, k) + (k - 1))

-----------------------------------------------------------------------------
(* Properties of the location (SpecLocation) *)

\* C1 (as claimed): an update() whose metadata request or whose directory
\* request fails ends having emitted exactly one invalid-location notification
\* and no content-change notification, the failing step issues no request and
\* leaves the directory listing as it was.
C1_FailureEmitsOneInvalid ==
    [][last'.op \in {"metadataError", "directoryError"} =>
          /\ last'.done = Finished(1, 0)
          /\ ~Emits(last', Changed)
          /\ last'.issued = <<>>
          /\ directory' = directory]_vars

\* C2 (as claimed): every update() that ends has emitted one notification in
\* all, a content-change or an invalid-location, never both and never two.
C2_OneNotificationPerUpdate ==
    last.done /= <<>> => last.done[1].inv + last.done[1].chg = 1

\* C3: when the metadata response that answers an updateLocation is not null
\* (and no other update() is in flight), the cached paths are those of the
\* location: for a directory directoryPath = path, isRoot iff there is one
\* segment, parentPath the first n-1 segments joined (null for one segment);
\* for a file isRoot is false, directoryPath the first n-1 segments joined and
\* parentPath the first n-2 segments joined when n > 2, null otherwise.
C3_PathsAfterUpdateLocation ==
    (last.op = "metadataNext" /\ last.first /\ last.emitted = <<>>) =>
        LET n == Len(pathSegments)
        IN /\ metadata = Content(type, path)
           /\ IF type = "directory"
              THEN /\ directoryPath = path
                   /\ isRoot <=> (n = 1)
                   /\ n > 1 => parentPath = FirstJoined(n - 1)
                   /\ n = 1 => parentPath = Null
              ELSE /\ ~isRoot
                   /\ directoryPath = FirstJoined(n - 1)
                   /\ n > 2 => parentPath = FirstJoined(n - 2)
                   /\ n <= 2 => parentPath = Null

\* C3 witness: a file three segments deep has been resolved
C3_Witness ==
    /\ last.op = "metadataNext" /\ last.first /\ last.emitted = <<>>
    /\ type = "file" /\ Len(pathSegments) = 3
    /\ directoryPath /= path /\ parentPath /= Null

\* C10: within an update() the order is metadata, directory listing,
\* notification.  A directory request is issued only by the step that applies
\* a metadata response, and it targets the directoryPath that step leaves (for
\* a file: the first n-1 segments joined); a content-change notification is
\* emitted only by the step that stores a directory listing, and that step
\* emits exactly one and ends the update().
C10_MetadataThenDirectoryThenNotify ==
    [][/\ \A r \in BagToSet(inflight') :
             (r.kind = "dir" /\ Copies(inflight', r) > Copies(inflight, r)) =>
                 /\ last'.op = "metadataNext"
                 /\ last'.issued = <<r>>
                 /\ r.path = directoryPath'
       /\ (last'.op = "metadataNext" /\ last'.done = <<>> /\ last'.emitted = <<>>) =>
             /\ \E req \in BagToSet(inflight) :
                   /\ req.kind = "meta"
                   /\ Copies(inflight', req) = Copies(inflight, req) - 1
                   /\ metadata' = Content(type', req.path)
             /\ last'.issued = <<Request("dir", directoryPath', 0)>>
             /\ type' = "file" => directoryPath' = FirstJoined(Len(pathSegments) - 1)
       /\ Emits(last', Changed) => last'.op = "directoryNext"
       /\ last'.op = "directoryNext" =>
             /\ last'.emitted = <<Changed>>
             /\ \E req \in BagToSet(inflight) :
                   /\ req.kind = "dir"
                   /\ inflight' = Answer(inflight, req)
                   /\ directory' = Content("directory", req.path)
                   /\ last'.done = Finished(req.inv, 1)]_vars

\* C10 witness: the listing of a file's directory has been stored and notified
C10_Witness ==
    /\ last.op = "directoryNext" /\ last.done = Finished(0, 1)
    /\ type = "file" /\ metadata.path = path
    /\ directoryPath /= path /\ directory = Content("directory", directoryPath)

-----------------------------------------------------------------------------
(* Properties of the session and kernel-spec caches (SpecSessions, SpecLookups) *)

\* whether string p is a prefix of string q
IsPrefix(p, q) == Len(p) <= Len(q) /\ SubSeq(q, 1, Len(p)) = p

\* the session list after the recorded edits, in order
RECURSIVE ApplyEdits(_, _)
ApplyEdits(list, edits) ==
    IF edits = <<>> THEN list
    ELSE LET e == Head(edits)
             kept(x) == x.id \notin e.ids
         IN ApplyEdits(IF e.op = "add" THEN Append(list, e.session)
                       ELSE SelectSeq(list, kept),
                       Tail(edits))

\* C4: the caches mirror the remote lists.  The cached session list is the
\* payload of the last getSessions response delivered (the empty list before
\* any) with the addSession/removeSessions edits made since applied in order;
\* the kernel-spec cache is the payload of the last getKernelspecs response
\* delivered (null before any); construction issues one request of each kind.
C4_CachesMirrorRemote ==
    /\ sessions = ApplyEdits(hist.base, hist.edits)
    /\ kernelSpecs = hist.ks
    /\ last.op = "constructor" =>
          /\ Copies(inflight, Request("sessions", Null, 0)) = 1
          /\ Copies(inflight, Request("kernelspecs", Null, 0)) = 1
          /\ BagCardinality(inflight) = 2

\* C4 witness: a delivered list, then one session removed and one added
C4_Witness ==
    /\ hist.base = <<S1, S3>> /\ Len(hist.edits) = 2
    /\ sessions = <<S3, S2>>
    /\ kernelSpecs = <<"python3", "ir">>

\* the sessions whose path starts with p, in cache order
SessionsWithPrefix(p) == LET starts(x) == IsPrefix(p, x.path) IN SelectSeq(sessions, starts)

\* C5: getSessionsForNotebook(p) returns exactly the cached sessions whose path
\* starts with p, in cache order; hasRunningKernel(p) is true iff that list is
\* not empty; a lookup changes no state and issues no request.
C5_LookupsFilterByPrefix ==
    [][last'.op \in {"getSessionsForNotebook", "hasRunningKernel"} =>
          LET p == last'.arg
          IN /\ getSessionsForNotebook(p) = SessionsWithPrefix(p)
             /\ hasRunningKernel(p) <=> (getSessionsForNotebook(p) /= <<>>)
             /\ last'.op = "getSessionsForNotebook" =>
                   last'.result = SessionsWithPrefix(p)
             /\ last'.op = "hasRunningKernel" =>
                   (last'.result <=> (SessionsWithPrefix(p) /= <<>>))
             /\ last'.issued = <<>>
             /\ UNCHANGED <<locVars, notebook, notebookPath, sessions, kernelSpecs,
                            updateInterval, timers, inflight, pipes, moves, hist>>]_vars

\* C5 witness: a lookup that keeps one of two cached sessions
C5_Witness ==
    /\ last.op = "getSessionsForNotebook" /\ last.arg = PathASlash
    /\ sessions = <<S2, S1>> /\ last.result = <<S1>>

-----------------------------------------------------------------------------
(* Properties of polling and of the requests in flight (SpecPolling) *)

\* C6: a tick happens only while auto-update is active and issues the fetch
\* sequence of a manual refresh: one kernel-spec request, one sessions request
\* and the metadata request of update() for the current path, nothing else;
\* it changes none of path, directoryPath, parentPath (nor any other field).
\* The directory request of that update() follows its metadata response and
\* targets directoryPath.
C6_TickRefetches ==
    [][/\ last'.op = "tick" =>
             /\ hist.auto = "true" /\ timers > 0
             /\ last'.issued = <<Request("kernelspecs", Null, 0),
                                 Request("sessions", Null, 0),
                                 Request("meta", path, 0)>>
             /\ inflight' = inflight (+) SetToBag({Request("kernelspecs", Null, 0)})
                                     (+) SetToBag({Request("sessions", Null, 0)})
                                     (+) SetToBag({Request("meta", path, 0)})
             /\ last'.emitted = <<>>
             /\ UNCHANGED <<locVars, sessions, kernelSpecs, updateInterval, timers>>
       /\ (last'.op = "metadataNext" /\ last'.done = <<>>) =>
             last'.issued = <<Request("dir", directoryPath', Len(last'.emitted))>>]_vars

\* C6 witness: a tick has refreshed the location a/b
C6_Witness ==
    /\ last.op = "tick" /\ path = PathAB
    /\ Copies(inflight, Request("meta", PathAB, 0)) = 1
    /\ BagCardinality(inflight) = 3

\* C7: at most one polling timer is subscribed, one is subscribed iff the most
\* recent call was setAutoUpdate(true), and a tick happens only then.
C7_OneTimerIffActive ==
    /\ timers <= 1
    /\ (timers = 1) <=> (hist.auto = "true")
    /\ (updateInterval = "open") <=> (hist.auto = "true")
    /\ last.op = "tick" => hist.auto = "true"

\* C7 witness: polling was switched on, ticked, and was switched off
C7_Witness ==
    /\ hist.auto = "false" /\ updateInterval = "closed" /\ timers = 0
    /\ BagCardinality(inflight) = 3

\* the kinds of request a step of operation op answers
KindsAnswered(op) ==
    IF op \in {"metadataNext", "metadataError"} THEN {"meta"}
    ELSE IF op \in {"directoryNext", "directoryError"} THEN {"dir"}
    ELSE IF op \in {"sessionsNext", "sessionsError"} THEN {"sessions"}
    ELSE IF op \in {"kernelspecsNext", "kernelspecsError"} THEN {"kernelspecs"}
    ELSE IF op \in {"notebookNext", "notebookError"} THEN {"notebook"}
    ELSE {}

\* C8: no request is ever cancelled.  A step takes a request out of flight
\* only by answering it, one request per step; updateLocation, update,
\* setAutoUpdate and a tick take none out.  An answer is applied whatever was
\* called since the request was issued: it overwrites type and metadata, the
\* directory listing, the session list or the kernel specs, and the update()
\* steps emit their content-change or invalid-location notification.
C8_NoRequestCancelled ==
    [][/\ \A r \in BagToSet(inflight) :
             Copies(inflight', r) >=
                 Copies(inflight, r) - (IF r.kind \in KindsAnswered(last'.op) THEN 1 ELSE 0)
       /\ BagCardinality(inflight') >= BagCardinality(inflight) - 1
       /\ last'.op = "sessionsNext" => sessions' = hist'.base
       /\ last'.op = "kernelspecsNext" => kernelSpecs' = hist'.ks
       /\ (last'.op = "metadataNext" /\ last'.emitted = <<>>) =>
             \E req \in BagToSet(inflight) :
                 /\ req.kind = "meta"
                 /\ metadata' = Content(type', req.path)
       /\ last'.op = "directoryNext" =>
             /\ \E req \in BagToSet(inflight) :
                   req.kind = "dir" /\ directory' = Content("directory", req.path)
             /\ last'.emitted = <<Changed>>
       /\ last'.op \in {"metadataError", "directoryError"} =>
             last'.emitted = <<Invalid>>]_vars

\* C8 witness: the listing of a/b, requested before updateLocation moved to a,
\* was stored and notified after polling was switched off
C8_Witness ==
    /\ last.op = "directoryNext" /\ Emits(last, Changed)
    /\ path = PathA /\ directory = Content("directory", PathAB)
    /\ metadata = Content("directory", PathAB)
    /\ hist.auto = "false"

-----------------------------------------------------------------------------
(* Properties of getSpecifiedKernel (SpecKernel) *)

\* the entry of the loaded kernel-spec cache under name ("undefined": none)
Entry(name) ==
    IF \E i \in 1..Len(kernelSpecs) : kernelSpecs[i] = name THEN name ELSE "undefined"

-----------------------------------------------------------------------------
(* Properties of a location that is loading (SpecLocation) *)

\* the first k of segs joined by '/', built from the left
RECURSIVE JoinedUpTo(_, _)
JoinedUpTo(segs, k) ==
    IF k <= 0 THEN <<>>
    ELSE IF k = 1 THEN segs[1]
    ELSE JoinedUpTo(segs, k - 1) \o <<"/">> \o segs[k]

\* a URL segment with its %2F escapes replaced by '/'
Unescaped(seg) == [i \in 1..Len(seg) |-> IF seg[i] = "%2F" THEN "/" ELSE seg[i]]

\* the paths the URLs stand for
UrlPaths ==
    {JoinedUpTo([i \in 1..Len(url) |-> Unescaped(url[i])], Len(url)) : url \in Urls}

\* C11: updateLocation sets path to the decoded segments joined by '/',
\* directoryPath to path and parentPath to null, and issues the metadata
\* request for path; type, isRoot, metadata and the directory listing keep
\* their values; from then on isCurrentPath(p) holds iff p is the new path.
C11_LoadingChangesOnlyPaths ==
    [][last'.op = "updateLocation" =>
          /\ \E url \in Urls :
                pathSegments' = [i \in 1..Len(url) |-> Unescaped(url[i])]
          /\ path' = JoinedUpTo(pathSegments', Len(pathSegments'))
          /\ directoryPath' = path'
          /\ parentPath' = Null
          /\ last'.issued = <<Request("meta", path', 0)>>
          /\ inflight' = inflight (+) SetToBag({Request("meta", path', 0)})
          /\ last'.emitted = <<>>
          /\ UNCHANGED <<type, isRoot, metadata, directory>>
          /\ \A p \in UrlPaths \cup {path} : isCurrentPath(p)' <=> (p = path')]_vars

\* C11 witness: a/a%2Fb is loading while the fields still describe the file a
C11_Witness ==
    /\ last.op = "updateLocation"
    /\ path = <<"a", "/", "a", "/", "b">> /\ directoryPath = path /\ parentPath = Null
    /\ type = "file" /\ metadata = Content("file", PathA)
    /\ directory = Content("directory", <<>>)

\* a step on which updateMetadata received a null response: it emitted
\* invalid-location and returned, so the pipeline of update() went on
NullMetadataStep(l) == l.op = "metadataNext" /\ l.emitted = <<Invalid>> /\ l.done = <<>>

\* C12: when the metadata response is null, updateMetadata emits invalid-location
\* and leaves type, metadata, isRoot, parentPath and directoryPath as they were
C12_NullMetadataKeepsFields ==
    [][NullMetadataStep(last') =>
          UNCHANGED <<type, metadata, isRoot, parentPath, directoryPath>>]_vars

C12_Witness ==
    /\ NullMetadataStep(last)
    /\ type = "directory" /\ isRoot /\ metadata = Content("directory", PathA)
    /\ path = PathA /\ directoryPath = PathA /\ parentPath = Null

-----------------------------------------------------------------------------
(* Properties of locations that follow one another (SpecRace) *)

\* C13 (as claimed): whatever the order in which the responses to successive
\* updateLocation calls arrive, once no metadata or directory request is in
\* flight the cached type, metadata, isRoot, directoryPath, parentPath and
\* directory listing are those of the path requested last; in particular
\* type = 'directory' implies directoryPath = path.
C13_LastLocationWins ==
    (pathSegments /= NoSegments /\ InFlight({"meta", "dir"}) = 0) =>
        LET n == Len(pathSegments)
        IN /\ metadata = Content(type, path)
           /\ directory = Content("directory", directoryPath)
           /\ IF type = "directory"
              THEN /\ directoryPath = path
                   /\ isRoot <=> (n = 1)
                   /\ parentPath = IF n = 1 THEN Null ELSE FirstJoined(n - 1)
              ELSE /\ ~isRoot
                   /\ directoryPath = FirstJoined(n - 1)
                   /\ parentPath = IF n > 2 THEN FirstJoined(n - 2) ELSE Null

-----------------------------------------------------------------------------
(* Properties of edits that meet an older response (SpecStaleSessions) *)

\* whether list holds a session with this id
HasId(list, id) == \E i \in 1..Len(list) : list[i].id = id

\* C14 (as claimed): a getSessions response whose request was issued before
\* the local edits does not undo them: a session added by addSession that is
\* in the cached list stays in it, and a session removed by removeSessions
\* that is absent from the cached list stays absent.
C14_EditsSurviveStaleResponse ==
    [][last'.op = "sessionsNext" =>
          \A i \in 1..Len(hist.edits) :
             LET e == hist.edits[i]
             IN /\ (e.op = "add" /\ HasId(sessions, e.session.id)) =>
                       HasId(sessions', e.session.id)
                /\ e.op = "remove" =>
                       \A id \in e.ids : ~HasId(sessions, id) => ~HasId(sessions', id)]_vars

-----------------------------------------------------------------------------
(* Properties of moveSessionsWithFile (SpecMoves) *)

\* the positions of the cached sessions whose path starts with p
Matching(p) == {i \in 1..Len(sessions) : IsPrefix(p, sessions[i].path)}

\* the getSessions requests a step added to those in flight
Refreshes(before, after) == Copies(after, sessionsRequest) - Copies(before, sessionsRequest)

\* C15: moveSessionsWithFile(fromPath, toName, toPath) subscribes to exactly
\* one move request for each cached session whose path starts with fromPath
\* (name toName + unique id, path toPath + unique id) and to none for any
\* other session; neither the call nor the end of its move requests edits the
\* cached list; one sessions refresh is issued when the move requests have
\* finished: by the step that answers the last of them, by the step in which
\* one of them fails, and by the call itself when no session matches, and by
\* no other step.
C15_MovesThenOneRefresh ==
    [][/\ last'.op = "moveSessionsWithFile" =>
             LET from == last'.arg[1]
                 moved == last'.moved
                 Wanted(s) == [id |-> s.id,
                               name |-> last'.arg[2] \o getUniqueIdFromSession(s),
                               path |-> last'.arg[3] \o getUniqueIdFromSession(s)]
             IN /\ Len(moved) = Cardinality(Matching(from))
                /\ \A i \in Matching(from) :
                      Cardinality({k \in 1..Len(moved) : moved[k] = Wanted(sessions[i])}) = 1
                /\ \A i \in (1..Len(sessions)) \ Matching(from) :
                      \A k \in 1..Len(moved) : moved[k].id /= sessions[i].id
                /\ sessions' = sessions
                /\ moves' = IF moved = <<>> THEN moves ELSE Append(moves, moved)
                /\ Refreshes(inflight, inflight') = IF moved = <<>> THEN 1 ELSE 0
       /\ last'.op = "moveNext" =>
             /\ sessions' = sessions
             /\ \E i \in 1..Len(moves) :
                   IF Len(moves[i]) = 1
                   THEN /\ moves' = RemoveAt(moves, i)
                        /\ Refreshes(inflight, inflight') = 1
                   ELSE /\ Len(moves') = Len(moves)
                        /\ Len(moves'[i]) = Len(moves[i]) - 1
                        /\ \A g \in (1..Len(moves)) \ {i} : moves'[g] = moves[g]
                        /\ Refreshes(inflight, inflight') = 0
       /\ last'.op = "moveError" =>
             /\ sessions' = sessions
             /\ \E i \in 1..Len(moves) : moves' = RemoveAt(moves, i)
             /\ Refreshes(inflight, inflight') = 1
       /\ last'.op \notin {"moveSessionsWithFile", "moveNext", "moveError"} =>
             /\ moves' = moves
             /\ Refreshes(inflight, inflight') <= 0]_vars

\* C15 witness: of two move requests one has failed while the other was
\* pending; the refresh is issued and the cached list is as it was
C15_Witness ==
    /\ last.op = "moveError" /\ last.issued = <<sessionsRequest>>
    /\ sessions = <<S2, S1>> /\ moves = <<>>
    /\ Copies(inflight, sessionsRequest) = 1

-----------------------------------------------------------------------------
(* Properties of the local edits (SpecSessions) *)

\* C16: addSession appends the session at the end of the cached list and
\* leaves the entries before it and their order as they were; removeSessions(ids)
\* removes exactly the cached sessions whose id is in ids, keeps the others in
\* order, and removing the same ids again changes nothing; each call hands the
\* new list to the subscribers of sessions exactly once and issues no request.
C16_EditsAreLocal ==
    [][/\ last'.op = "addSession" =>
             /\ Len(sessions') = Len(sessions) + 1
             /\ sessions'[Len(sessions')] = last'.arg
             /\ \A i \in 1..Len(sessions) : sessions'[i] = sessions[i]
       /\ last'.op = "removeSessions" =>
             LET kept(x) == x.id \notin last'.arg
             IN /\ sessions' = SelectSeq(sessions, kept)
                /\ removeSessions(sessions', last'.arg) = sessions'
       /\ last'.op \in {"addSession", "removeSessions"} =>
             /\ last'.published = <<sessions'>>
             /\ last'.issued = <<>>
             /\ inflight' = inflight]_vars

\* C16 witness: both sessions of a delivered list have been removed in one call
C16_Witness ==
    /\ last.op = "removeSessions" /\ last.arg = {"1", "2"}
    /\ hist.base = <<S2, S1>> /\ Len(hist.edits) = 1
    /\ sessions = <<>> /\ last.published = <<sessions>>

-----------------------------------------------------------------------------
(* Properties of the kernel specs getSpecifiedKernel reads (SpecKernel) *)

\* C17 (as claimed): whenever getSpecifiedKernel produces a result, on a hit
\* of the notebook cache or when a getContents response has passed the tap, a
\* getKernelspecs response has been delivered before, so getKernelspec does
\* not fail on a kernel-spec cache that is still null.
C17_KernelSpecsLoadedBeforeLookup ==
    (\/ last.op = "getSpecifiedKernel" /\ last.result /= "pipe"
     \/ last.op = "notebookNext" /\ last.result /= NotebookTypeError) =>
        /\ hist.ks /= Null
        /\ last.result /= TypeError

====
